---- MODULE Spec2Model ----
(***************************************************************************)
(* Model of the fuzzing campaign controller of bugbane,                    *)
(* src/bugbane/tools/fuzz/main.py: limit_cpu_cores and main.               *)
(*                                                                         *)
(* main is a sequential program; pc is its position.  Each action is one   *)
(* statement group of main, named after what it does, with the outcomes    *)
(* of the collaborators it calls (process launcher, stats monitor, command *)
(* generator, ...) drawn from small sets.                                  *)
(***************************************************************************)
EXTENDS Integers, Sequences, FiniteSets, TLC

(***************************************************************************)
(* Bounds of the model.                                                    *)
(***************************************************************************)
MaxInstances == 3        \* largest core count of a campaign under Spec
MaxDurationSteps == 1    \* thresholds are 60, 90, ... seconds
MaxRequested == 16       \* SpecCores: largest requested core count
MaxAdmin == 9            \* SpecCores: largest --max-cpus
MaxHardware == 32        \* SpecCores: largest os.cpu_count()
Hz == 2                  \* clock resolution: the clock counts 1/Hz seconds
MaxClock == 29           \* SpecClock: the sleeps end within MaxClock seconds
MaxTicks == 8            \* SpecTicks: poll ticks counted

(***************************************************************************)
(* Values.                                                                 *)
(***************************************************************************)
None == -1               \* Python's None where an int is expected
NoRet == -1              \* main has not returned

Min(a, b) == IF a <= b THEN a ELSE b

\* `x or d` on Optional[int]: None and 0 are both falsy
OrDefault(x, d) == IF x = None \/ x = 0 THEN d ELSE x

DefaultCores == 8

\* a limit that forgets the hardware
LimitCpuCoresNoHardware(from_config, max_from_args, hw_count) ==
    Min(OrDefault(from_config, DefaultCores), max_from_args)

LimitCpuCores(from_config, max_from_args, hw_count) ==
    LET wanted == OrDefault(from_config, DefaultCores)
        limit  == Min(max_from_args, OrDefault(hw_count, 1))
    IN  Min(wanted, limit)

\* the warning test of main, line 108
TruncationWarned(wanted, allocated) == wanted # None /\ wanted < allocated

\* A shell command.  NoCmd stands for None (an engine without stats command).
Cmd(name, n, padded, tmux) ==
    [name |-> name, n |-> n, padded |-> padded, tmux |-> tmux]
NoCmd == Cmd("none", 0, FALSE, FALSE)
StatsCmd == Cmd("stats", 0, FALSE, FALSE)
PstreeCmd == Cmd("pstree", 0, FALSE, FALSE)
KillCmd == Cmd("killall", 0, FALSE, FALSE)

\* The termination command, lines 261-266: shell commands joined by ";",
\* run one after the other whatever their exit codes
Killall(sig, target) ==
    [op |-> "killall", sig |-> sig, target |-> target, seconds |-> 0]
ShellSleep(n) == [op |-> "sleep", sig |-> "none", target |-> "none", seconds |-> n]
FirstGraceSeconds == 2
SecondGraceSeconds == 1

\* a script that force-kills the fuzzers at once
KillScriptForceFirst ==
    << Killall("SIGKILL", "afl-fuzz"),
       ShellSleep(FirstGraceSeconds),
       Killall("SIGINT", "afl-fuzz"),
       Killall("SIGTERM", "tmux"),
       ShellSleep(SecondGraceSeconds),
       Killall("SIGKILL", "tmux") >>

KillScript ==
    << Killall("SIGINT", "afl-fuzz"),
       ShellSleep(FirstGraceSeconds),
       Killall("SIGKILL", "afl-fuzz"),
       Killall("SIGTERM", "tmux"),
       ShellSleep(SecondGraceSeconds),
       Killall("SIGKILL", "tmux") >>

\* the time the sleeps of a script take
RECURSIVE SleepSeconds(_)
SleepSeconds(script) ==
    IF script = <<>> THEN 0
    ELSE Head(script).seconds + SleepSeconds(Tail(script))

\* str.strip()
Strip(cmd) == [cmd EXCEPT !.padded = FALSE]

\* cmdgen.generate: count commands and count reproduce specs
GenerateCmds(count) == [i \in 1..count |-> Cmd("fuzz", i, TRUE, FALSE)]
GenerateSpecs(count) == [i \in 1..count |-> i]

RECURSIVE NotNone(_)
NotNone(cmds) ==
    IF cmds = <<>> THEN <<>>
    ELSE IF Head(cmds) = NoCmd THEN NotNone(Tail(cmds))
         ELSE <<Head(cmds)>> \o NotNone(Tail(cmds))

\* make_tmux_commands: one detached tmux command per command that is present
MakeTmuxCommands(cmds) ==
    LET present == NotNone(cmds)
    IN  [i \in 1..Len(present) |-> [present[i] EXCEPT !.tmux = TRUE]]

\* Stop conditions
StopCondNames == {"total_run_time", "time_without_finds"}
Durations == {60 + 30 * k : k \in 0..MaxDurationSteps}

\* a record that keeps the seconds
StopConditionsInSeconds(name, dur) ==
    IF name = "time_without_finds"
    THEN {<<"minutes_without_paths", dur>>}
    ELSE {<<"minutes_run_time", dur>>}

\* lines 176-179
StopConditionsRecord(name, dur) ==
    IF name = "time_without_finds"
    THEN {<<"minutes_without_paths", dur \div 60>>}
    ELSE {<<"minutes_run_time", dur \div 60>>}

\* Stats snapshots
Snap(e, s) == [elapsed |-> e, since_last_find |-> s]
NoStats == Snap(-1, -1)      \* the stats object before any load
Absent == Snap(-2, -2)       \* no stats file on disk
Times == UNION {{d - 1, d, d + 1} : d \in Durations}
MaxTime == 61 + 30 * MaxDurationSteps
\* no find since the start (since_last_find = elapsed), or a find just now
Snapshots == {Snap(t, t) : t \in Times} \cup {Snap(MaxTime, 0)}

\* StopConditions.met
Met(name, snap, threshold) ==
    IF name = "time_without_finds"
    THEN snap.since_last_find >= threshold
    ELSE snap.elapsed >= threshold

\* Observable effects: log lines, files written, commands run
Ev(ev) == [ev |-> ev, cmd |-> NoCmd, rc |-> 0]
Run(cmd, rc) == [ev |-> "run", cmd |-> cmd, rc |-> rc]

NoRecord == [stop_conditions |-> {<<"unset", 0>>}, reproduce_specs |-> <<>>,
             fuzz_time_real_seconds |-> None, saved |-> FALSE]

\* int(time()) of a clock reading t
IntTime(t) == t \div Hz

VARIABLES
    pc,                  \* position in main
    ret,                 \* return value of main
    cores_wanted,        \* fuzz_config.fuzz_cores as loaded
    max_cpus,            \* args.max_cpus
    cpu_count,           \* os.cpu_count()
    fuzz_cores,          \* allocated cores
    fuzz_cmds, reproduce_specs, stats_cmd, all_cmds,
    manifest,            \* lines of fuzz.cmds
    stop_cond_name, duration, stop_conditions,
    tmux_cmds, launch_idx, exit_code,
    stats_print_counter, progress,
    stats_file,          \* what the stats directory held at the last load
    fuzz_stats, last_fuzz_stats,
    last_good,           \* last snapshot loaded successfully
    summary,             \* snapshot printed in the final summary
    bane_vars,           \* the configuration record as saved
    trace,               \* effects so far
    start_timestamp,     \* int(time()) when the launch loop was over
    real_duration,       \* seconds since start_timestamp, as last computed
    now,                 \* time(): the wall clock, in 1/Hz seconds
    launched_at,         \* the clock when start_timestamp was taken
    interrupt_at,        \* the clock when the interrupt was handled
    drained_at,          \* the clock when the poll loop had been left
    ticks,               \* poll ticks so far, as an observer counts them
    loads_ok             \* successful loads of the poll loop so far

vars == <<pc, ret, cores_wanted, max_cpus, cpu_count, fuzz_cores,
          fuzz_cmds, reproduce_specs, stats_cmd, all_cmds, manifest,
          stop_cond_name, duration, stop_conditions,
          tmux_cmds, launch_idx, exit_code,
          stats_print_counter, progress, stats_file,
          fuzz_stats, last_fuzz_stats, last_good, summary, bane_vars, trace,
          start_timestamp, real_duration, now, launched_at, interrupt_at,
          drained_at, ticks, loads_ok>>

cfgVars == <<cores_wanted, max_cpus, cpu_count, fuzz_cores>>
planVars == <<fuzz_cmds, reproduce_specs, stats_cmd, all_cmds, manifest,
              tmux_cmds>>
stopVars == <<stop_cond_name, duration, stop_conditions>>
launchVars == <<launch_idx, exit_code>>
statsVars == <<stats_print_counter, progress, stats_file, fuzz_stats,
               last_fuzz_stats, last_good, summary>>
\* what main reads off the clock, and when it did
timeVars == <<start_timestamp, real_duration, launched_at, interrupt_at,
              drained_at>>

InitAt(start, wanted, maxc, hw) ==
    /\ pc = start
    /\ ret = NoRet
    /\ cores_wanted \in wanted
    /\ max_cpus \in maxc
    /\ cpu_count \in hw
    /\ fuzz_cores = None
    /\ fuzz_cmds = <<>>
    /\ reproduce_specs = <<>>
    /\ stats_cmd = NoCmd
    /\ all_cmds = <<>>
    /\ manifest = <<>>
    /\ stop_cond_name = "unset"
    /\ duration = 0
    /\ stop_conditions = {<<"unset", 0>>}
    /\ tmux_cmds = <<>>
    /\ launch_idx = 0
    /\ exit_code = 0
    /\ stats_print_counter = 0
    /\ progress = FALSE
    /\ stats_file = Absent
    /\ fuzz_stats = NoStats
    /\ last_fuzz_stats = NoStats
    /\ last_good = NoStats
    /\ summary = NoStats
    /\ bane_vars = NoRecord
    /\ trace = <<>>
    /\ start_timestamp = None
    /\ real_duration = None
    /\ now = 0
    /\ launched_at = None
    /\ interrupt_at = None
    /\ drained_at = None
    /\ ticks = 0
    /\ loads_ok = 0

\* nothing requested, one core, or as many cores as the machine allows
Init == InitAt("check_tmux", {None, 1, MaxInstances},
               {MaxInstances}, {MaxInstances})

\* log.error(why); return 1
Fail(why) ==
    /\ pc' = "done"
    /\ ret' = 1
    /\ trace' = Append(trace, Ev(why))

Goto(next) ==
    /\ pc' = next
    /\ UNCHANGED <<ret, trace>>

\* lines 83-85: shutil.which("tmux")
CheckTmux ==
    /\ pc = "check_tmux"
    /\ \E found \in BOOLEAN : IF found THEN Goto("load_suite") ELSE Fail("tmux not found")
    /\ UNCHANGED <<cfgVars, planVars, stopVars, launchVars, statsVars,
                   bane_vars, timeVars>>

\* lines 87-97: FuzzDataSuite.unpack_from_fuzzing_suite_dir, FuzzConfig.from_dict
LoadSuite ==
    /\ pc = "load_suite"
    /\ \E outcome \in {"ok", "FuzzDataError", "FuzzConfigError"} :
         IF outcome = "ok" THEN Goto("merge_dict") ELSE Fail(outcome)
    /\ UNCHANGED <<cfgVars, planVars, stopVars, launchVars, statsVars,
                   bane_vars, timeVars>>

\* lines 99-104: merge_dictionaries_to_file
MergeDict ==
    /\ pc = "merge_dict"
    /\ \E outcome \in {"ok", "DictMergeError"} :
         IF outcome = "ok" THEN Goto("limit_cores") ELSE Fail(outcome)
    /\ UNCHANGED <<cfgVars, planVars, stopVars, launchVars, statsVars,
                   bane_vars, timeVars>>

\* lines 106-112
LimitCores ==
    /\ pc = "limit_cores"
    /\ fuzz_cores' = LimitCpuCores(cores_wanted, max_cpus, cpu_count)
    /\ trace' = IF TruncationWarned(cores_wanted, fuzz_cores')
                THEN Append(trace, Ev("warn_limit"))
                ELSE trace
    /\ pc' = "create_engine"
    /\ UNCHANGED <<ret, cores_wanted, max_cpus, cpu_count, planVars, stopVars,
                   launchVars, statsVars, bane_vars, timeVars>>

\* lines 114-128: the three factories keyed on fuzzer_type
CreateEngine ==
    /\ pc = "create_engine"
    /\ \E outcome \in {"ok", "TypeError"} :
         IF outcome = "ok" THEN Goto("generate") ELSE Fail(outcome)
    /\ UNCHANGED <<cfgVars, planVars, stopVars, launchVars, statsVars,
                   bane_vars, timeVars>>

\* lines 130-149: cmdgen.generate
Generate ==
    /\ pc = "generate"
    /\ \E outcome \in {"ok", "FuzzerCmdError", "IndexError"} :
         IF outcome = "ok"
         THEN /\ fuzz_cmds' = GenerateCmds(fuzz_cores)
              /\ reproduce_specs' = GenerateSpecs(fuzz_cores)
              /\ Goto("write_manifest")
         ELSE /\ UNCHANGED <<fuzz_cmds, reproduce_specs>>
              /\ Fail(outcome)
    /\ UNCHANGED <<cfgVars, stats_cmd, all_cmds, manifest, tmux_cmds, stopVars,
                   launchVars, statsVars, bane_vars, timeVars>>

\* a command list with the stats command appended after the fuzzers
WriteManifestStatsLast ==
    /\ pc = "write_manifest"
    /\ \E sc \in {NoCmd, StatsCmd} :
         /\ stats_cmd' = sc
         /\ fuzz_cmds' = [i \in 1..Len(fuzz_cmds) |-> Strip(fuzz_cmds[i])]
         /\ all_cmds' = fuzz_cmds' \o <<sc>>
         /\ manifest' = NotNone(all_cmds')
    /\ Goto("resolve_stop")
    /\ UNCHANGED <<cfgVars, reproduce_specs, tmux_cmds, stopVars, launchVars,
                   statsVars, bane_vars, timeVars>>

\* lines 151-166: all_cmds and the fuzz.cmds file
WriteManifest ==
    /\ pc = "write_manifest"
    /\ \E sc \in {NoCmd, StatsCmd} :
         /\ stats_cmd' = sc
         /\ fuzz_cmds' = [i \in 1..Len(fuzz_cmds) |-> Strip(fuzz_cmds[i])]
         /\ all_cmds' = <<sc>> \o fuzz_cmds'
         /\ manifest' = NotNone(all_cmds')
    /\ Goto("resolve_stop")
    /\ UNCHANGED <<cfgVars, reproduce_specs, tmux_cmds, stopVars, launchVars,
                   statsVars, bane_vars, timeVars>>

\* a resolution error that is logged without returning
ResolveStopNoReturn ==
    /\ pc = "resolve_stop"
    /\ \/ /\ trace' = Append(trace, Ev("StopConditionError"))
          /\ UNCHANGED stopVars
       \/ \E name \in StopCondNames, dur \in Durations :
            /\ stop_cond_name' = name
            /\ duration' = dur
            /\ stop_conditions' = StopConditionsRecord(name, dur)
            /\ trace' = Append(trace, Ev("stop_condition"))
    /\ tmux_cmds' = MakeTmuxCommands(all_cmds)
    /\ pc' = "launch"
    /\ launch_idx' = 1
    /\ UNCHANGED <<ret, cfgVars, fuzz_cmds, reproduce_specs, stats_cmd,
                   all_cmds, manifest, exit_code, statsVars, bane_vars, timeVars>>

\* lines 168-187: detect_required_stop_condition, make_tmux_commands
ResolveStop ==
    /\ pc = "resolve_stop"
    /\ \/ /\ Fail("StopConditionError")
          /\ UNCHANGED <<stopVars, tmux_cmds, launch_idx>>
       \/ \E name \in StopCondNames, dur \in Durations :
            /\ stop_cond_name' = name
            /\ duration' = dur
            /\ stop_conditions' = StopConditionsRecord(name, dur)
            /\ tmux_cmds' = MakeTmuxCommands(all_cmds)
            /\ pc' = "launch"
            /\ trace' = Append(trace, Ev("stop_condition"))
            /\ launch_idx' = 1
            /\ UNCHANGED ret
    /\ UNCHANGED <<cfgVars, fuzz_cmds, reproduce_specs, stats_cmd, all_cmds,
                   manifest, exit_code, statsVars, bane_vars, timeVars>>

\* a launch loop that does not look at the exit code
LaunchFailedIgnored(rc) == FALSE

\* what the launch loop does with an exit code, line 193
LaunchFailed(rc) == rc # 0

\* lines 190-200: one iteration of the launch loop
LaunchOne ==
    /\ pc = "launch"
    /\ launch_idx <= Len(tmux_cmds)
    /\ \E rc \in {0, 1} :
         /\ exit_code' = rc
         /\ IF LaunchFailed(rc)
            THEN /\ pc' = "done"
                 /\ ret' = 1
                 /\ trace' = trace \o <<Run(tmux_cmds[launch_idx], rc),
                                        Ev("launch failed")>>
                 /\ UNCHANGED launch_idx
            ELSE /\ pc' = "launch"
                 /\ trace' = Append(trace, Run(tmux_cmds[launch_idx], rc))
                 /\ launch_idx' = launch_idx + 1
                 /\ UNCHANGED ret
    /\ UNCHANGED <<cfgVars, planVars, stopVars, statsVars, bane_vars, timeVars>>

\* line 202: the loop is over
LaunchDone ==
    /\ pc = "launch"
    /\ launch_idx > Len(tmux_cmds)
    /\ pc' = "initial_delay"
    /\ start_timestamp' = IntTime(now')
    /\ launched_at' = now'
    /\ UNCHANGED <<ret, trace, cfgVars, planVars, stopVars, launchVars,
                   statsVars, bane_vars, real_duration, interrupt_at,
                   drained_at>>

\* line 205
InitialDelay ==
    /\ pc = "initial_delay"
    /\ pc' = "pstree"
    /\ UNCHANGED <<ret, trace, cfgVars, planVars, stopVars, launchVars,
                   statsVars, bane_vars, timeVars>>

\* lines 207-212
Pstree ==
    /\ pc = "pstree"
    /\ \E rc \in {0, 1} :
         /\ exit_code' = rc
         /\ trace' = Append(trace, Run(PstreeCmd, rc))
    /\ stats_print_counter' = 0
    /\ real_duration' = 0
    /\ pc' = "poll_sleep"
    /\ UNCHANGED <<ret, cfgVars, planVars, stopVars, launch_idx, progress,
                   stats_file, fuzz_stats, last_fuzz_stats, last_good, summary,
                   bane_vars, start_timestamp, launched_at, interrupt_at,
                   drained_at>>

\* a poll tick that takes the launch timestamp anew
PollSleepRestartsClock ==
    /\ pc = "poll_sleep"
    /\ start_timestamp' = IntTime(now')
    /\ real_duration' = IntTime(now') - start_timestamp'
    /\ pc' = "load"
    /\ UNCHANGED <<ret, trace, cfgVars, planVars, stopVars, launchVars,
                   statsVars, bane_vars, launched_at, interrupt_at,
                   drained_at>>

\* lines 215-216
PollSleep ==
    /\ pc = "poll_sleep"
    /\ real_duration' = IntTime(now') - start_timestamp
    /\ pc' = "load"
    /\ UNCHANGED <<ret, trace, cfgVars, planVars, stopVars, launchVars,
                   statsVars, bane_vars, start_timestamp, launched_at,
                   interrupt_at, drained_at>>

\* a loop that evaluates the stop condition whatever the load did
AfterLoadAlwaysEvaluates(file) == "evaluate"

\* where the loop goes after a load, lines 225-228
AfterLoad(file) == IF file = Absent THEN "poll_sleep" ELSE "evaluate"

\* a counter that advances on every tick, stats or no stats
LoadStatsCountsEveryTick ==
    /\ pc = "load"
    /\ \E file \in {Absent} \cup Snapshots :
         /\ stats_file' = file
         /\ stats_print_counter' = (stats_print_counter + 1) % 6
         /\ IF file = Absent
            THEN /\ progress' = FALSE
                 /\ UNCHANGED <<fuzz_stats, last_good>>
            ELSE /\ fuzz_stats' = file
                 /\ last_good' = file
                 /\ progress' = (stats_print_counter' = 0)
         /\ pc' = AfterLoad(file)
    /\ UNCHANGED <<ret, trace, cfgVars, planVars, stopVars, launchVars,
                   last_fuzz_stats, summary, bane_vars, timeVars>>

\* lines 218-226: fuzz_stats.load and the progress line
LoadStats ==
    /\ pc = "load"
    /\ \E file \in {Absent} \cup Snapshots :
         /\ stats_file' = file
         /\ IF file = Absent
            THEN /\ progress' = FALSE
                 /\ UNCHANGED <<fuzz_stats, last_good, stats_print_counter>>
            ELSE /\ fuzz_stats' = file
                 /\ last_good' = file
                 /\ stats_print_counter' = (stats_print_counter + 1) % 6
                 /\ progress' = (stats_print_counter' = 0)
         /\ pc' = AfterLoad(file)
    /\ UNCHANGED <<ret, trace, cfgVars, planVars, stopVars, launchVars,
                   last_fuzz_stats, summary, bane_vars, timeVars>>

\* a break that does not depend on the stop condition
EvalStopAlwaysBreaks ==
    /\ pc = "evaluate"
    /\ trace' = Append(trace, Ev("stop_met"))
    /\ pc' = "final_stats"
    /\ UNCHANGED <<ret, cfgVars, planVars, stopVars, launchVars, statsVars,
                   bane_vars, timeVars>>

\* a poll loop without the break
EvalStopNeverBreaks ==
    /\ pc = "evaluate"
    /\ pc' = "poll_sleep"
    /\ UNCHANGED <<ret, trace, cfgVars, planVars, stopVars, launchVars, statsVars,
                   bane_vars, timeVars>>

\* lines 228-234
EvalStop ==
    /\ pc = "evaluate"
    /\ IF Met(stop_cond_name, fuzz_stats, duration)
       THEN /\ trace' = Append(trace, Ev("stop_met"))
            /\ pc' = "final_stats"
       ELSE /\ pc' = "poll_sleep"
            /\ UNCHANGED trace
    /\ UNCHANGED <<ret, cfgVars, planVars, stopVars, launchVars, statsVars,
                   bane_vars, timeVars>>

\* the positions the try block of lines 204-234 covers
RunningPcs == {"initial_delay", "pstree", "poll_sleep", "load", "evaluate"}

\* a handler that leaves the stop conditions as resolved
InterruptKeepsStopConditions ==
    /\ pc \in RunningPcs
    /\ trace' = Append(trace, Ev("sigint"))
    /\ pc' = "final_stats"
    /\ interrupt_at' = now'
    /\ UNCHANGED <<ret, cfgVars, planVars, stopVars, launchVars, statsVars,
                   bane_vars, start_timestamp, real_duration, launched_at,
                   drained_at>>

\* lines 236-239: KeyboardInterrupt raised inside the try block
Interrupt ==
    /\ pc \in RunningPcs
    /\ trace' = Append(trace, Ev("sigint"))
    /\ stop_conditions' = {}
    /\ interrupt_at' = now'
    /\ pc' = "final_stats"
    /\ UNCHANGED <<ret, cfgVars, planVars, stop_cond_name, duration,
                   launchVars, statsVars, bane_vars, start_timestamp,
                   real_duration, launched_at, drained_at>>

\* a final load without the fallback to the copy
FinalSnapshotNoFallback(file, last) == IF file = Absent THEN NoStats ELSE file

\* lines 242-246: what the summary shows after the final load
FinalSnapshot(file, last) == IF file = Absent THEN last ELSE file

\* a drain that keeps the duration the poll loop computed last
FinalStatsKeepsLoopDuration ==
    /\ pc = "final_stats"
    /\ drained_at' = now'
    /\ last_fuzz_stats' = fuzz_stats
    /\ \E file \in {Absent} \cup Snapshots :
         /\ stats_file' = file
         /\ fuzz_stats' = FinalSnapshot(file, last_fuzz_stats')
    /\ summary' = fuzz_stats'
    /\ trace' = Append(trace, Ev("summary"))
    /\ pc' = "screens"
    /\ UNCHANGED <<ret, cfgVars, planVars, stopVars, launchVars,
                   stats_print_counter, progress, last_good, bane_vars,
                   start_timestamp, real_duration, launched_at, interrupt_at>>

\* lines 241-247
FinalStats ==
    /\ pc = "final_stats"
    /\ real_duration' = IntTime(now') - start_timestamp
    /\ drained_at' = now'
    /\ last_fuzz_stats' = fuzz_stats
    /\ \E file \in {Absent} \cup Snapshots :
         /\ stats_file' = file
         /\ fuzz_stats' = FinalSnapshot(file, last_fuzz_stats')
    /\ summary' = fuzz_stats'
    /\ trace' = Append(trace, Ev("summary"))
    /\ pc' = "screens"
    /\ UNCHANGED <<ret, cfgVars, planVars, stopVars, launchVars,
                   stats_print_counter, progress, last_good, bane_vars,
                   start_timestamp, launched_at, interrupt_at>>

\* make_tmux_screen_dumps: best effort, a capture that cannot be taken is
\* logged
ScreenDumpOutcomes == {0, 1}
ScreensDumped(missing) == [Ev("screens") EXCEPT !.rc = missing]

\* a shutdown that saves right after the screen captures
ScreensThenPersist ==
    /\ pc = "screens"
    /\ \E missing \in ScreenDumpOutcomes :
         trace' = Append(trace, ScreensDumped(missing))
    /\ pc' = "persist"
    /\ UNCHANGED <<ret, cfgVars, planVars, stopVars, launchVars, statsVars,
                   bane_vars, timeVars>>

\* lines 249-257: make_tmux_screen_dumps
Screens ==
    /\ pc = "screens"
    /\ \E missing \in ScreenDumpOutcomes :
         trace' = Append(trace, ScreensDumped(missing))
    /\ pc' = "kill"
    /\ UNCHANGED <<ret, cfgVars, planVars, stopVars, launchVars, statsVars,
                   bane_vars, timeVars>>

\* a shutdown that gives up when the termination command fails
KillChecked ==
    /\ pc = "kill"
    /\ \E rc \in {0, 1} :
         /\ trace' = Append(trace, Run(KillCmd, rc))
         /\ IF rc = 0
            THEN pc' = "persist" /\ UNCHANGED ret
            ELSE pc' = "done" /\ ret' = 1
    /\ UNCHANGED <<cfgVars, planVars, stopVars, launchVars, statsVars,
                   bane_vars, timeVars>>

\* lines 259-267: the exit code of the termination command is discarded
Kill ==
    /\ pc = "kill"
    /\ \E rc \in {0, 1} : trace' = Append(trace, Run(KillCmd, rc))
    /\ pc' = "persist"
    /\ UNCHANGED <<ret, cfgVars, planVars, stopVars, launchVars, statsVars,
                   bane_vars, timeVars>>

\* fuzz_config.update_config_vars
UpdateConfigVars(conds, specs, seconds) ==
    [stop_conditions |-> conds, reproduce_specs |-> specs,
     fuzz_time_real_seconds |-> seconds, saved |-> TRUE]

\* lines 269-281
Persist ==
    /\ pc = "persist"
    /\ bane_vars' = UpdateConfigVars(stop_conditions, reproduce_specs,
                                     real_duration)
    /\ trace' = Append(trace, Ev("save_vars"))
    /\ ret' = 0
    /\ pc' = "done"
    /\ UNCHANGED <<cfgVars, planVars, stopVars, launchVars, statsVars,
                   timeVars>>

(***************************************************************************)
(* The environment of main: how long a step takes on the wall clock, and   *)
(* what an observer of the poll loop counts.  The actions above read the   *)
(* clock as now', the time at which the step is over.                      *)
(***************************************************************************)
Taking(ds, A) == (\E d \in ds : now' = now + d) /\ A
Uncounted == UNCHANGED <<ticks, loads_ok>>
Instant(A) == Taking({0}, A) /\ Uncounted

\* main with the clock left out: no step takes time, nothing is counted
Next ==
    \/ Instant(CheckTmux)
    \/ Instant(LoadSuite)
    \/ Instant(MergeDict)
    \/ Instant(LimitCores)
    \/ Instant(CreateEngine)
    \/ Instant(Generate)
    \/ Instant(WriteManifest)
    \/ Instant(ResolveStop)
    \/ Instant(LaunchOne)
    \/ Instant(LaunchDone)
    \/ Instant(InitialDelay)
    \/ Instant(Pstree)
    \/ Instant(PollSleep)
    \/ Instant(LoadStats)
    \/ Instant(EvalStop)
    \/ Instant(Interrupt)
    \/ Instant(FinalStats)
    \/ Instant(Screens)
    \/ Instant(Kill)
    \/ Instant(Persist)

Spec == Init /\ [][Next]_vars

(***************************************************************************)
(* limit_cpu_cores alone: every input of the bounded grid, one application *)
(***************************************************************************)
InitCores == InitAt("limit_cores", {None} \cup 0..MaxRequested,
                    1..MaxAdmin, {None} \cup 1..MaxHardware)

NextCores == Instant(LimitCores)

SpecCores == InitCores /\ [][NextCores]_vars

(***************************************************************************)
(* main on the wall clock.  The sleeps take their time, a launch takes a   *)
(* moment or the start interval, the termination command takes its two     *)
(* grace periods; an interrupt cuts the sleep it arrives in.  One campaign *)
(* configuration; the poll sleeps start within MaxClock seconds.           *)
(***************************************************************************)
InitialDelaySeconds == 5
PollSeconds == 10
GraceSeconds == SleepSeconds(KillScript)

InitOne == InitAt("check_tmux", {1}, {MaxInstances}, {MaxInstances})

LaunchCosts == {1, Hz}
Cuts(n) == {0, 1, n - 1}
InterruptedAfter ==
    IF pc = "initial_delay" THEN Cuts(InitialDelaySeconds * Hz)
    ELSE IF pc = "poll_sleep" THEN Cuts(PollSeconds * Hz)
    ELSE {0}

NextClock ==
    \/ Instant(CheckTmux)
    \/ Instant(LoadSuite)
    \/ Instant(MergeDict)
    \/ Instant(LimitCores)
    \/ Instant(CreateEngine)
    \/ Instant(Generate)
    \/ Instant(WriteManifest)
    \/ Instant(ResolveStop)
    \/ Taking(LaunchCosts, LaunchOne) /\ Uncounted
    \/ Instant(LaunchDone)
    \/ Taking({InitialDelaySeconds * Hz}, InitialDelay) /\ Uncounted
    \/ Instant(Pstree)
    \/ /\ now + PollSeconds * Hz <= MaxClock * Hz
       /\ Taking({PollSeconds * Hz}, PollSleep) /\ Uncounted
    \/ Instant(LoadStats)
    \/ Instant(EvalStop)
    \/ Taking(InterruptedAfter, Interrupt) /\ Uncounted
    \/ Taking({0, 1}, FinalStats) /\ Uncounted
    \/ Instant(Screens)
    \/ Taking({GraceSeconds * Hz}, Kill) /\ Uncounted
    \/ Instant(Persist)

SpecClock == InitOne /\ [][NextClock]_vars

(***************************************************************************)
(* main with the poll loop observed: the ticks (poll sleeps) and the       *)
(* successful loads are counted, for MaxTicks ticks.  One campaign         *)
(* configuration, the clock left out.                                      *)
(***************************************************************************)
NextTicks ==
    \/ Instant(CheckTmux)
    \/ Instant(LoadSuite)
    \/ Instant(MergeDict)
    \/ Instant(LimitCores)
    \/ Instant(CreateEngine)
    \/ Instant(Generate)
    \/ Instant(WriteManifest)
    \/ Instant(ResolveStop)
    \/ Instant(LaunchOne)
    \/ Instant(LaunchDone)
    \/ Instant(InitialDelay)
    \/ Instant(Pstree)
    \/ /\ ticks < MaxTicks
       /\ Taking({0}, PollSleep)
       /\ ticks' = ticks + 1
       /\ UNCHANGED loads_ok
    \/ /\ Taking({0}, LoadStats)
       /\ loads_ok' = IF stats_file' = Absent THEN loads_ok ELSE loads_ok + 1
       /\ UNCHANGED ticks
    \/ Instant(EvalStop)
    \/ Instant(Interrupt)
    \/ Instant(FinalStats)
    \/ Instant(Screens)
    \/ Instant(Kill)
    \/ Instant(Persist)

SpecTicks == InitOne /\ [][NextTicks]_vars

(***************************************************************************)
(* main with the exceptions no handler of main catches.  A                 *)
(* KeyboardInterrupt raised outside the try block of lines 204-234, and an *)
(* exception of fuzz_stats.load other than FileNotFoundError, propagate    *)
(* out of main: it ends at "aborted", without a return value.              *)
(***************************************************************************)
\* the exception leaves main
Propagate(exception) ==
    /\ pc' = "aborted"
    /\ trace' = Append(trace, Ev(exception))
    /\ UNCHANGED ret

\* the positions of lines 189-202 and 241-279
UncaughtPcs == {"launch", "final_stats", "screens", "kill", "persist"}

\* an interrupt that is handled like the one of the try block
InterruptCaughtEverywhere ==
    /\ pc \in UncaughtPcs
    /\ trace' = Append(trace, Ev("KeyboardInterrupt"))
    /\ pc' = "final_stats"
    /\ UNCHANGED <<ret, cfgVars, planVars, stopVars, launchVars, statsVars,
                   bane_vars, timeVars>>

\* lines 189-202, 241-279: KeyboardInterrupt outside the try block
UncaughtInterrupt ==
    /\ pc \in UncaughtPcs
    /\ Propagate("KeyboardInterrupt")
    /\ UNCHANGED <<cfgVars, planVars, stopVars, launchVars, statsVars,
                   bane_vars, timeVars>>

\* a load error that is retried like a missing file
LoadStatsErrorRetried ==
    /\ pc = "load"
    /\ trace' = Append(trace, Ev("FuzzStatsError"))
    /\ pc' = "poll_sleep"
    /\ UNCHANGED <<ret, cfgVars, planVars, stopVars, launchVars, statsVars,
                   bane_vars, timeVars>>

\* lines 218-236: fuzz_stats.load raises something else than
\* FileNotFoundError; neither except clause matches
LoadStatsError ==
    /\ pc = "load"
    /\ Propagate("FuzzStatsError")
    /\ UNCHANGED <<cfgVars, planVars, stopVars, launchVars, statsVars,
                   bane_vars, timeVars>>

\* lines 241-246: the same in the final load
FinalStatsError ==
    /\ pc = "final_stats"
    /\ real_duration' = IntTime(now') - start_timestamp
    /\ drained_at' = now'
    /\ last_fuzz_stats' = fuzz_stats
    /\ Propagate("FuzzStatsError")
    /\ UNCHANGED <<cfgVars, planVars, stopVars, launchVars,
                   stats_print_counter, progress, stats_file, fuzz_stats,
                   last_good, summary, bane_vars, start_timestamp,
                   launched_at, interrupt_at>>

NextFaults ==
    \/ Instant(CheckTmux)
    \/ Instant(LoadSuite)
    \/ Instant(MergeDict)
    \/ Instant(LimitCores)
    \/ Instant(CreateEngine)
    \/ Instant(Generate)
    \/ Instant(WriteManifest)
    \/ Instant(ResolveStop)
    \/ Instant(LaunchOne)
    \/ Instant(LaunchDone)
    \/ Instant(InitialDelay)
    \/ Instant(Pstree)
    \/ Instant(PollSleep)
    \/ Instant(LoadStats)
    \/ Instant(EvalStop)
    \/ Instant(Interrupt)
    \/ Instant(FinalStats)
    \/ Instant(Screens)
    \/ Instant(Kill)
    \/ Instant(Persist)
    \/ Instant(UncaughtInterrupt)
    \/ Instant(LoadStatsError)
    \/ Instant(FinalStatsError)

SpecFaults == InitOne /\ [][NextFaults]_vars

(***************************************************************************)
(* main as a process that keeps running: every statement of main returns   *)
(* (the sleeps end, the commands and the loads come back), so main takes   *)
(* its next step as long as it has one.  The operator may interrupt or     *)
(* not: the interrupt is under no fairness.                                *)
(***************************************************************************)
MainSteps ==
    \/ Instant(CheckTmux)
    \/ Instant(LoadSuite)
    \/ Instant(MergeDict)
    \/ Instant(LimitCores)
    \/ Instant(CreateEngine)
    \/ Instant(Generate)
    \/ Instant(WriteManifest)
    \/ Instant(ResolveStop)
    \/ Instant(LaunchOne)
    \/ Instant(LaunchDone)
    \/ Instant(InitialDelay)
    \/ Instant(Pstree)
    \/ Instant(PollSleep)
    \/ Instant(LoadStats)
    \/ Instant(EvalStop)
    \/ Instant(FinalStats)
    \/ Instant(Screens)
    \/ Instant(Kill)
    \/ Instant(Persist)

NextLive ==
    \/ MainSteps
    \/ Instant(Interrupt)

SpecLive == InitOne /\ [][NextLive]_vars /\ WF_vars(MainSteps)

(***************************************************************************)
(* What the claims speak of, read off the effects.                         *)
(***************************************************************************)
Has(ev) == \E i \in DOMAIN trace : trace[i].ev = ev
IsLaunch(e) == e.ev = "run" /\ e.cmd.tmux
IsKill(e) == e.ev = "run" /\ e.cmd = KillCmd
Launches == SelectSeq(trace, IsLaunch)
KillIssued == \E i \in DOMAIN trace : IsKill(trace[i])
AnyRun == Has("run")
IsPrefix(s, t) == Len(s) <= Len(t) /\ \A i \in 1..Len(s) : s[i] = t[i]
DrainPcs == {"final_stats", "screens", "kill", "persist"}
IsDrainStep(e) == e.ev \in {"summary", "screens", "save_vars"} \/ IsKill(e)
DrainSteps ==
    LET d == SelectSeq(trace, IsDrainStep)
    IN  [i \in 1..Len(d) |-> IF IsKill(d[i]) THEN "kill" ELSE d[i].ev]
DrainSequence == <<"summary", "screens", "kill", "save_vars">>

(***************************************************************************)
(* C1: the launch commands are issued one at a time in the order of the    *)
(* list, a command is issued only after all earlier ones returned 0, and   *)
(* once a launch returns a non-zero exit code main has returned 1: no      *)
(* further command is issued, the process tree is not inspected, no stats  *)
(* are loaded, the stop condition is not evaluated and the configuration   *)
(* record is not saved.                                                    *)
(***************************************************************************)
C1_LaunchInOrderAbortOnFailure ==
    LET L == Launches IN
    /\ IsPrefix([i \in 1..Len(L) |-> L[i].cmd], tmux_cmds)
    /\ \A i \in 1..(Len(L) - 1) : L[i].rc = 0
    /\ (Len(L) > 0 /\ L[Len(L)].rc # 0) =>
         /\ pc = "done"
         /\ ret = 1
         /\ trace[Len(trace) - 1] = L[Len(L)]
         /\ \A i \in DOMAIN trace : trace[i].ev = "run" => IsLaunch(trace[i])
         /\ ~Has("stop_met") /\ ~Has("sigint") /\ ~Has("summary")
         /\ stats_file = Absent /\ fuzz_stats = NoStats
         /\ bane_vars = NoRecord

\* instance 2 of 4 fails to launch
C1_Witness ==
    /\ Len(tmux_cmds) = 4
    /\ Len(Launches) = 2
    /\ Launches[1].rc = 0
    /\ Launches[2].rc # 0
    /\ pc = "done"

(***************************************************************************)
(* C2: when main returns a non-zero code, nothing is left running: if any  *)
(* launch succeeded, the termination command has been issued.              *)
(***************************************************************************)
C2_NothingLeftRunning ==
    (pc = "done" /\ ret # 0) =>
        ((\E i \in DOMAIN Launches : Launches[i].rc = 0) => KillIssued)

(***************************************************************************)
(* C3: an interrupt is caught at every position of RUNNING (the initial    *)
(* delay, the process tree inspection, the poll sleep, the stats load, the *)
(* evaluation of the stop condition); after it the controller is in        *)
(* DRAINING or has returned, with an empty stop-condition record; when it  *)
(* has returned, it returned 0 after the same sequence of DRAINING steps   *)
(* as after a normal stop (summary, screens, termination command, save),   *)
(* the termination command was issued, and the saved record differs from   *)
(* that of a normal stop only in its stop conditions, which are empty.     *)
(***************************************************************************)
C3_InterruptDrains ==
    /\ pc \in {"initial_delay", "pstree", "poll_sleep", "load", "evaluate"}
         => ENABLED Instant(Interrupt)
    /\ Has("sigint") =>
         /\ pc \in DrainPcs \cup {"done"}
         /\ stop_conditions = {}
         /\ ret # 1
         /\ IsPrefix(DrainSteps, DrainSequence)
    /\ (Has("sigint") /\ pc = "done") =>
         /\ ret = 0
         /\ DrainSteps = DrainSequence
         /\ KillIssued
         /\ bane_vars = [stop_conditions |-> {},
                         reproduce_specs |-> reproduce_specs,
                         fuzz_time_real_seconds |-> real_duration,
                         saved |-> TRUE]
    /\ (Has("stop_met") /\ pc = "done") =>
         /\ ret = 0
         /\ DrainSteps = DrainSequence
         /\ bane_vars.stop_conditions # {}
         /\ [bane_vars EXCEPT !.stop_conditions = {}] =
               [stop_conditions |-> {},
                reproduce_specs |-> reproduce_specs,
                fuzz_time_real_seconds |-> real_duration,
                saved |-> TRUE]

\* interrupted during the initial delay, before the process tree was inspected
C3_Witness ==
    /\ pc = "done"
    /\ Has("sigint")
    /\ \A i \in DOMAIN trace : trace[i].cmd # PstreeCmd
    /\ bane_vars.saved

(***************************************************************************)
(* C4 as stated: after a normal stop the saved stop-condition fields are   *)
(* the resolved name and its threshold in seconds.                         *)
(***************************************************************************)
C4_NameAndSeconds ==
    (pc = "done" /\ Has("stop_met")) =>
        bane_vars.stop_conditions = {<<stop_cond_name, duration>>}

(***************************************************************************)
(* C4 amended: after a normal stop the saved stop conditions hold one      *)
(* entry, keyed minutes_without_paths for time_without_finds and           *)
(* minutes_run_time for any other name, whose value is the threshold in    *)
(* whole minutes; for total_run_time = 60 seconds met at elapsed = 61 it   *)
(* is (minutes_run_time, 1).                                               *)
(***************************************************************************)
C4_KeyAndMinutes ==
    (pc = "done" /\ Has("stop_met")) =>
        /\ \E key \in {"minutes_run_time", "minutes_without_paths"},
              m \in 0..duration :
              /\ bane_vars.stop_conditions = {<<key, m>>}
              /\ key = "minutes_without_paths"
                    <=> stop_cond_name = "time_without_finds"
              /\ 60 * m <= duration /\ duration < 60 * (m + 1)
        /\ (stop_cond_name = "total_run_time" /\ duration = 60) =>
              bane_vars.stop_conditions = {<<"minutes_run_time", 1>>}

C4_Witness ==
    /\ pc = "done"
    /\ Has("stop_met")
    /\ stop_cond_name = "total_run_time"
    /\ duration = 60
    /\ last_good.elapsed = 61
    /\ bane_vars.saved

(***************************************************************************)
(* C5: with total_run_time = T, the stop condition is evaluated only on a  *)
(* tick whose load succeeded, on the snapshot just loaded; the loop is     *)
(* left for DRAINING by the stop condition only on a snapshot with         *)
(* elapsed >= T, and it is left on the first such snapshot (while the loop *)
(* goes on, the last loaded snapshot has elapsed < T); DRAINING is entered *)
(* only by the stop condition or by an interrupt.                          *)
(***************************************************************************)
C5_StopOnFirstElapsedAtLeastT ==
    /\ pc = "evaluate" => stats_file # Absent /\ fuzz_stats = stats_file
                           /\ last_good = stats_file
    /\ stop_cond_name = "total_run_time" =>
         /\ Has("stop_met") => last_good.elapsed >= duration
         /\ (pc \in {"poll_sleep", "load"} /\ last_good # NoStats)
               => last_good.elapsed < duration
    /\ (pc \in DrainPcs \/ (pc = "done" /\ ret = 0))
         => (Has("stop_met") /\ ~Has("sigint")) \/ (Has("sigint") /\ ~Has("stop_met"))

\* the boundary: stopped on elapsed = T, on the second successful tick
C5_Witness ==
    /\ pc = "final_stats"
    /\ Has("stop_met")
    /\ stop_cond_name = "total_run_time"
    /\ last_good.elapsed = duration
    /\ stats_print_counter = 2

(***************************************************************************)
(* C6: a failure of an INIT step (tmux missing, suite or configuration     *)
(* load, dictionary merge, engine creation, command generation, stop       *)
(* condition resolution) is the last thing main does: it returns 1, no     *)
(* command has been handed to the process launcher and the configuration   *)
(* record has not been saved.  While main is in INIT no command is run.    *)
(***************************************************************************)
InitPcs == {"check_tmux", "load_suite", "merge_dict", "limit_cores",
            "create_engine", "generate", "write_manifest", "resolve_stop"}
InitErrors == {"tmux not found", "FuzzDataError", "FuzzConfigError",
               "DictMergeError", "TypeError", "FuzzerCmdError", "IndexError",
               "StopConditionError"}

C6_InitFailureStartsNothing ==
    /\ pc \in InitPcs => ~AnyRun /\ bane_vars = NoRecord /\ ret = NoRet
    /\ \A i \in DOMAIN trace :
         trace[i].ev \in InitErrors =>
            /\ i = Len(trace)
            /\ pc = "done"
            /\ ret = 1
            /\ ~AnyRun
            /\ bane_vars = NoRecord

\* the last INIT step fails, after the manifest was written
C6_Witness ==
    /\ Has("StopConditionError")
    /\ manifest # <<>>
    /\ pc = "done"

(***************************************************************************)
(* C9: a tick whose load finds no stats stays in RUNNING: the controller   *)
(* goes back to the poll sleep without returning, without logging an error *)
(* or anything else, without evaluating the stop condition and with the    *)
(* snapshot, the counter and the stop condition as they were; from the     *)
(* poll sleep the next step of the loop is the next load.  This holds of   *)
(* every tick, so of any number of them in a row.                          *)
(***************************************************************************)
C9_UnavailableTickRetries ==
    [][/\ (pc = "load" /\ pc' # "final_stats" /\ stats_file' = Absent) =>
            /\ pc' = "poll_sleep"
            /\ UNCHANGED <<ret, trace, fuzz_stats, last_good,
                           stats_print_counter, stopVars, bane_vars>>
       /\ (pc = "poll_sleep" /\ pc' # "final_stats") => pc' = "load"
      ]_vars

\* unavailable on a tick after a tick that loaded stats
C9_Witness ==
    /\ pc = "poll_sleep"
    /\ stats_file = Absent
    /\ last_good \in Snapshots
    /\ ret = NoRet

(***************************************************************************)
(* C10: DRAINING does not fail on the final load; the final summary shows  *)
(* the last snapshot loaded during RUNNING when the final load finds no    *)
(* stats, and the snapshot just loaded when it finds some.                 *)
(***************************************************************************)
C10_FinalSnapshot ==
    Has("summary") =>
        /\ pc \in {"screens", "kill", "persist", "done"}
        /\ ret # 1
        /\ summary = IF stats_file = Absent THEN last_good ELSE stats_file
        /\ fuzz_stats = summary

\* the final load finds nothing and the summary falls back
C10_Witness ==
    /\ pc = "done"
    /\ ret = 0
    /\ stats_file = Absent
    /\ last_good \in Snapshots
    /\ summary = last_good

(***************************************************************************)
(* C7: for requested >= 1 or absent, admin max >= 1 and hardware >= 1 or   *)
(* undetectable (taken as 1), the allocated count is the least of          *)
(* requested (8 when absent), admin max and hardware, and is at least 1.   *)
(***************************************************************************)
C7_LimitIsMin ==
    (pc = "create_engine" /\ cores_wanted # 0) =>
        LET r == IF cores_wanted = None THEN 8 ELSE cores_wanted
            h == IF cpu_count = None THEN 1 ELSE cpu_count
        IN  /\ fuzz_cores <= r /\ fuzz_cores <= max_cpus /\ fuzz_cores <= h
            /\ fuzz_cores \in {r, max_cpus, h}
            /\ fuzz_cores >= 1

\* nothing requested and room for more than the default: 8 cores
C7_Witness ==
    /\ pc = "create_engine"
    /\ cores_wanted = None
    /\ max_cpus > 8
    /\ cpu_count > 8
    /\ fuzz_cores = 8

(***************************************************************************)
(* C8: the truncation warning is emitted exactly when a core count was     *)
(* requested and it exceeds the allocated count.                           *)
(***************************************************************************)
C8_WarnIffTruncated ==
    pc = "create_engine" =>
        (Has("warn_limit") <=> (cores_wanted # None /\ cores_wanted > fuzz_cores))

(***************************************************************************)
(* C11: the launch timestamp is the clock reading, in whole seconds, taken *)
(* when the launch loop was over; once the poll loop has been left, by the *)
(* stop condition or by an interrupt, the real duration is the clock       *)
(* reading taken then minus the launch timestamp, it is not negative, and  *)
(* it is the duration the saved record holds, whatever time the shutdown   *)
(* takes afterwards; after an interrupt it is within one poll interval of  *)
(* the time that had passed since the launch when the interrupt arrived.   *)
(***************************************************************************)
C11_RealDuration ==
    /\ launched_at # None => start_timestamp = IntTime(launched_at)
    /\ drained_at # None =>
         /\ real_duration = IntTime(drained_at) - IntTime(launched_at)
         /\ real_duration >= 0
         /\ Has("stop_met") \/ Has("sigint")
    /\ bane_vars.saved =>
         bane_vars.fuzz_time_real_seconds =
            IntTime(drained_at) - IntTime(launched_at)
    /\ (drained_at # None /\ Has("sigint")) =>
         LET since == interrupt_at - launched_at
             diff == real_duration * Hz - since
         IN  /\ diff <= PollSeconds * Hz
             /\ -diff <= PollSeconds * Hz

\* interrupted in the middle of a poll sleep, some time after the launches
C11_Witness ==
    /\ bane_vars.saved
    /\ Has("sigint")
    /\ start_timestamp >= 1
    /\ last_good \in Snapshots
    /\ bane_vars.fuzz_time_real_seconds > PollSeconds + InitialDelaySeconds
    /\ bane_vars.fuzz_time_real_seconds * Hz # interrupt_at - launched_at
    /\ now > drained_at

(***************************************************************************)
(* C12: when the first launch command is about to be issued, and from then *)
(* on, the command manifest is complete and no longer changes: its first   *)
(* line is the stats command when the engine has one, and there is no line *)
(* for it when it has none; the other lines are the fuzzer commands, one   *)
(* per instance, in the order of the instances; and the k-th launch issued *)
(* is the tmux command of the k-th line.                                   *)
(***************************************************************************)
ManifestLines ==
    LET fuzzers == [i \in 1..fuzz_cores |-> Cmd("fuzz", i, FALSE, FALSE)]
    IN  IF stats_cmd = NoCmd THEN fuzzers ELSE <<stats_cmd>> \o fuzzers

C12_ManifestBeforeLaunch ==
    (pc = "launch" \/ Launches # <<>>) =>
        /\ manifest = ManifestLines
        /\ \A i \in DOMAIN manifest : manifest[i] # NoCmd
        /\ \A k \in DOMAIN Launches :
              Launches[k].cmd = [manifest[k] EXCEPT !.tmux = TRUE]

\* three fuzzers and a stats command, the first launch just issued
C12_Witness ==
    /\ Len(Launches) = 1
    /\ Launches[1].cmd.name = "stats"
    /\ Len(manifest) = 4
    /\ manifest[1] = StatsCmd

(***************************************************************************)
(* C13: when main has returned 0, the final summary was printed once and   *)
(* the configuration record was saved once, after the termination command  *)
(* had been issued; when main has returned 1, the record was never saved;  *)
(* main returns 0 after a stop by the stop condition and after an          *)
(* interrupt caught in RUNNING.                                            *)
(***************************************************************************)
Count(ev) == Len(SelectSeq(trace, LAMBDA e : e.ev = ev))
Position(ev) == CHOOSE i \in DOMAIN trace : trace[i].ev = ev
KillPosition == CHOOSE i \in DOMAIN trace : IsKill(trace[i])

C13_ExitCodes ==
    /\ ret = 0 =>
         /\ pc = "done"
         /\ Count("summary") = 1
         /\ Count("save_vars") = 1
         /\ bane_vars.saved
         /\ KillIssued
         /\ Position("summary") < Position("save_vars")
         /\ KillPosition < Position("save_vars")
    /\ ret = 1 => ~Has("save_vars") /\ bane_vars = NoRecord
    /\ (pc = "done" /\ (Has("stop_met") \/ Has("sigint"))) => ret = 0
    /\ Has("save_vars") => ret = 0

\* a cancelled campaign has returned 0
C13_Witness ==
    /\ ret = 0
    /\ Has("sigint")
    /\ last_good \in Snapshots
    /\ trace[Len(trace)].ev = "save_vars"

(***************************************************************************)
(* C14: after a screen capture that could not be taken, and after a        *)
(* termination command that returned a non-zero exit code, the shutdown    *)
(* goes on: main is at a later DRAINING step or has returned, it has not   *)
(* returned 1, a next step is possible until it has returned, and when it  *)
(* has returned it returned 0 with every DRAINING step done in order and   *)
(* the record saved.                                                       *)
(***************************************************************************)
ScreensFailed == \E i \in DOMAIN trace : trace[i] = ScreensDumped(1)
KillFailed == \E i \in DOMAIN trace : IsKill(trace[i]) /\ trace[i].rc # 0

C14_ShutdownGoesOn ==
    /\ ScreensFailed => pc \in {"kill", "persist", "done"}
    /\ KillFailed => pc \in {"persist", "done"}
    /\ (ScreensFailed \/ KillFailed) =>
         /\ ret # 1
         /\ IsPrefix(DrainSteps, DrainSequence)
         /\ pc # "done" => ENABLED Next
         /\ pc = "done" =>
               /\ ret = 0
               /\ DrainSteps = DrainSequence
               /\ KillIssued
               /\ bane_vars.saved

\* both failed, and main returned 0
C14_Witness ==
    /\ ScreensFailed
    /\ KillFailed
    /\ pc = "done"
    /\ ret = 0

(***************************************************************************)
(* C15 as stated: on a tick whose load succeeded a progress line is        *)
(* emitted exactly when the tick is the 6th, 12th, ... poll tick, and no   *)
(* line is emitted on any other tick.                                      *)
(***************************************************************************)
C15_EverySixthTick ==
    /\ pc = "evaluate" => (progress <=> ticks % 6 = 0)
    /\ progress => ticks % 6 = 0

(***************************************************************************)
(* C15 amended: the counter of the poll loop counts the successful loads   *)
(* modulo 6; a progress line is emitted on a tick exactly when its load    *)
(* succeeded and is the 6th, 12th, ... successful load, so a tick without  *)
(* stats emits no line and does not advance the count; when the stop       *)
(* condition of a tick is about to be evaluated the line of that tick has  *)
(* been emitted if it was due, and once the stop condition was met the     *)
(* poll loop has been left, so no progress line follows.                   *)
(***************************************************************************)
C15_EverySixthLoad ==
    /\ stats_print_counter = loads_ok % 6
    /\ loads_ok <= ticks
    /\ pc = "evaluate" => loads_ok > 0 /\ (progress <=> loads_ok % 6 = 0)
    /\ progress => loads_ok > 0 /\ loads_ok % 6 = 0
    /\ (progress /\ pc \in RunningPcs) => stats_file # Absent
    /\ (pc = "poll_sleep" /\ stats_file = Absent) => ~progress
    /\ Has("stop_met") => pc \in DrainPcs \cup {"done"}

\* the first tick found no stats: the first line comes with the 7th tick
C15_Witness ==
    /\ pc = "evaluate"
    /\ progress
    /\ loads_ok = 6
    /\ ticks = 7
    /\ ~Has("stop_met")

(***************************************************************************)
(* C16: whether DRAINING was entered by the stop condition or by an        *)
(* interrupt, its steps come in one order: the final snapshot and summary, *)
(* the screen captures, the termination command, the save; at each         *)
(* position of DRAINING exactly the steps before it have been done, and    *)
(* the record is not saved unless the termination command was issued.  The *)
(* termination command signals the fuzzers to stop, waits, force-kills the *)
(* fuzzers, terminates tmux, waits for a shorter time and force-kills      *)
(* tmux, in this order.                                                    *)
(***************************************************************************)
StepsBefore(p) ==
    CASE p = "final_stats" -> 0
      [] p = "screens" -> 1
      [] p = "kill" -> 2
      [] p = "persist" -> 3
      [] OTHER -> 4

C16_DrainOrder ==
    /\ IsPrefix(DrainSteps, DrainSequence)
    /\ pc \in DrainPcs =>
         /\ Has("stop_met") \/ Has("sigint")
         /\ Len(DrainSteps) = StepsBefore(pc)
    /\ (pc = "done" /\ ret = 0) => DrainSteps = DrainSequence
    /\ bane_vars.saved => KillIssued
    /\ KillIssued =>
         /\ Len(KillScript) = 6
         /\ KillScript[1] = Killall("SIGINT", "afl-fuzz")
         /\ KillScript[2].op = "sleep"
         /\ KillScript[3] = Killall("SIGKILL", "afl-fuzz")
         /\ KillScript[4].op = "killall" /\ KillScript[4].target = "tmux"
         /\ KillScript[4].sig # "SIGKILL"
         /\ KillScript[5].op = "sleep"
         /\ KillScript[5].seconds < KillScript[2].seconds
         /\ KillScript[6] = Killall("SIGKILL", "tmux")

\* DRAINING entered by the stop condition, run to the end
C16_Witness ==
    /\ pc = "done"
    /\ Has("stop_met")
    /\ DrainSteps = DrainSequence
    /\ trace[Len(trace) - 1] = Run(KillCmd, 0)

(***************************************************************************)
(* C17: once INIT is over, no step of LAUNCHING, RUNNING or DRAINING       *)
(* changes the command list, the tmux commands made of it, the reproduce   *)
(* specifications, the stop-condition name or its threshold, and the plan  *)
(* is the one command generation produced; once the launch timestamp is    *)
(* taken no step changes it, a poll tick and an interrupt included; the    *)
(* reproduce specifications in the saved record are those command          *)
(* generation produced.                                                    *)
(***************************************************************************)
C17_PlanFixed ==
    /\ [][pc \notin InitPcs =>
            UNCHANGED <<fuzz_cmds, all_cmds, tmux_cmds, manifest,
                        reproduce_specs, stop_cond_name, duration>>]_vars
    /\ [][(pc \in RunningPcs \cup DrainPcs) => UNCHANGED start_timestamp]_vars
    /\ [](pc \in {"launch"} \cup RunningPcs \cup DrainPcs =>
            /\ reproduce_specs = GenerateSpecs(fuzz_cores)
            /\ tmux_cmds = MakeTmuxCommands(all_cmds)
            /\ stop_cond_name \in StopCondNames
            /\ duration \in Durations)
    /\ [](pc \in RunningPcs \cup DrainPcs =>
            start_timestamp = IntTime(launched_at))
    /\ [](bane_vars.saved =>
            bane_vars.reproduce_specs = GenerateSpecs(fuzz_cores))

\* saved after two poll ticks and an interrupt, the launch timestamp kept
C17_Witness ==
    /\ pc = "done"
    /\ Has("sigint")
    /\ start_timestamp = 1
    /\ now >= (2 * PollSeconds + InitialDelaySeconds) * Hz
    /\ bane_vars.reproduce_specs = <<1>>
    /\ stop_cond_name = "time_without_finds"

(***************************************************************************)
(* C18: the interrupt handler covers the positions of RUNNING and no       *)
(* other: in the launch loop and at every position of DRAINING an          *)
(* interrupt is possible and is not handled.  After such an interrupt main *)
(* has ended without a return value, the interrupt is the last thing that  *)
(* happened, the steps of DRAINING that were left are not done, and the    *)
(* record is not saved; when the interrupt came in the launch loop or      *)
(* before the termination command, the termination command is not issued.  *)
(***************************************************************************)
LastIs(ev) == trace # <<>> /\ trace[Len(trace)].ev = ev

C18_InterruptOutsideRunning ==
    /\ ENABLED Instant(Interrupt) <=> pc \in RunningPcs
    /\ pc \in {"launch"} \cup DrainPcs =>
         ENABLED Instant(UncaughtInterrupt)
    /\ Has("KeyboardInterrupt") =>
         /\ pc = "aborted"
         /\ ret = NoRet
         /\ LastIs("KeyboardInterrupt")
         /\ ~ENABLED NextFaults
         /\ ~bane_vars.saved
         /\ DrainSteps # DrainSequence
         /\ IsPrefix(DrainSteps, DrainSequence)
         /\ Len(DrainSteps) < 3 => ~KillIssued

\* interrupted between two launches: a fuzzer runs, nothing stops it
C18_Witness ==
    /\ Has("KeyboardInterrupt")
    /\ Len(Launches) = 1
    /\ Launches[1].rc = 0
    /\ Len(tmux_cmds) = 2
    /\ ~KillIssued
    /\ ~bane_vars.saved

(***************************************************************************)
(* C19: a stats load that fails with anything but a missing file, in the   *)
(* poll loop or in DRAINING, ends main: it has no return value, every      *)
(* launch had succeeded, the termination command is not issued and the     *)
(* record is not saved, and nothing happens after the error.  A missing    *)
(* file is the outcome that is recovered: after it main is in the poll     *)
(* loop or goes on with DRAINING.                                          *)
(***************************************************************************)
C19_OtherLoadErrorsEscape ==
    /\ Has("FuzzStatsError") =>
         /\ pc = "aborted"
         /\ ret = NoRet
         /\ LastIs("FuzzStatsError")
         /\ ~ENABLED NextFaults
         /\ Len(Launches) = Len(tmux_cmds)
         /\ \A i \in DOMAIN Launches : Launches[i].rc = 0
         /\ ~KillIssued
         /\ ~Has("screens")
         /\ ~bane_vars.saved
    /\ pc \in {"load", "final_stats"} =>
         /\ ENABLED Instant(LoadStatsError) \/ ENABLED Instant(FinalStatsError)
    /\ pc = "aborted" =>
         LastIs("FuzzStatsError") \/ LastIs("KeyboardInterrupt")

\* the stop condition was met, the final load fails
C19_Witness ==
    /\ Has("stop_met")
    /\ LastIs("FuzzStatsError")
    /\ pc = "aborted"
    /\ Len(Launches) = 2

(***************************************************************************)
(* C20: main leaves the poll loop without an interrupt only on a tick      *)
(* whose load succeeded with the stop condition met on the snapshot        *)
(* loaded; as long as no load has succeeded and no interrupt has arrived,  *)
(* main stays in RUNNING, with a next step to take, whatever the stop      *)
(* condition and its threshold; and if from some time on every load of the *)
(* poll loop succeeds with the stop condition met on its snapshot, main    *)
(* once in RUNNING eventually returns 0.                                   *)
(***************************************************************************)
Launched == launched_at # None
LoadStep == pc = "load" /\ pc' \in {"poll_sleep", "evaluate"}

C20_StopsOnlyByStats ==
    /\ []((pc \in DrainPcs \/ ret = 0) =>
            \/ Has("sigint")
            \/ /\ Has("stop_met")
               /\ last_good \in Snapshots
               /\ Met(stop_cond_name, last_good, duration))
    /\ []((Launched /\ last_good = NoStats /\ ~Has("sigint")) =>
            /\ pc \in RunningPcs
            /\ ret = NoRet
            /\ ENABLED MainSteps)
    /\ (<>[][LoadStep =>
                /\ stats_file' # Absent
                /\ Met(stop_cond_name, stats_file', duration)]_vars)
         => [](pc \in RunningPcs => <>(pc = "done" /\ ret = 0))

\* no stats were ever loaded: main is in the poll loop, about to sleep again
C20_Witness ==
    /\ pc = "poll_sleep"
    /\ stats_file = Absent
    /\ last_good = NoStats
    /\ stop_cond_name = "total_run_time"
    /\ Has("run")
    /\ trace[Len(trace)].cmd = PstreeCmd
====
